---- MODULE Spec2Model ----
(***************************************************************************)
(* A model of src/src/snowflake-cortex-agent.ts: the input normaliser,     *)
(* the answer extractor, the result persister and the orchestrator main(). *)
(*                                                                         *)
(* Text is a sequence of one-character strings, so that trim(), join() and *)
(* JSON.stringify / JSON.parse are computed character by character.        *)
(* JSON-like values are tagged records [t, v]; `undefined` is a tag too.   *)
(***************************************************************************)
EXTENDS Integers, Sequences, FiniteSets, TLC

VARIABLES
    pc,         \* position of main() / of the function under study
    inp,        \* what core.getInput(name) returns, per input name
    env,        \* process.env, per variable name (<<>> when unset or empty)
    request,    \* the argument runCortexAgent was called with
    result,     \* what runCortexAgent resolved to: [response, events]
    outputs,    \* the calls core.setOutput made, in order: [name, value]
    failure,    \* core.setFailed: [failed, message]
    answer,     \* extractAnswerText's return value
    coords,     \* resolveAgentCoordinates' return value (or the error thrown)
    dir,        \* the persist directory: [exists, entries]
    sweep,      \* cleanupPersistedFiles' locals and the history of the sweep
    clock,      \* the system clock, in ms
    persisted   \* persistResponse's call: [payload, path, done]

vars == <<pc, inp, env, request, result, outputs, failure, answer, coords,
          dir, sweep, clock, persisted>>

-----------------------------------------------------------------------------
(* Bounds of the model.                                                    *)

\* longest `content` array and longest top-level array handed to the extractor
MaxLen == 2
\* most entries a swept directory starts with
MaxEntries == 3
\* most clock ticks between two steps of one persist call
MaxTicks == 1

-----------------------------------------------------------------------------
(* Text.                                                                   *)

SP == " "
NL == "\n"

\* String.prototype.trim's white space (the part of it the inputs use)
IsWhite(c) == c \in {" ", "\n", "\t"}

RECURSIVE TrimStart(_)
TrimStart(s) ==
    IF s # <<>> /\ IsWhite(Head(s)) THEN TrimStart(Tail(s)) ELSE s

RECURSIVE TrimEnd(_)
TrimEnd(s) ==
    IF s # <<>> /\ IsWhite(s[Len(s)]) THEN TrimEnd(SubSeq(s, 1, Len(s) - 1)) ELSE s

Trim(s) == TrimEnd(TrimStart(s))

\* a || b on strings: the left one unless it is falsy (empty or undefined)
OrElse(a, b) == IF a # <<>> THEN a ELSE b

-----------------------------------------------------------------------------
(* JSON-like values.                                                       *)

Undef    == [t |-> "undef"]
Null     == [t |-> "null"]
Str(s)   == [t |-> "str", v |-> s]
Num(n)   == [t |-> "num", v |-> n]
Bool(b)  == [t |-> "bool", v |-> b]
Arr(xs)  == [t |-> "arr", v |-> xs]
Obj(f)   == [t |-> "obj", v |-> f]

\* property names
K_content   == <<"c", "o", "n", "t", "e", "n", "t">>
K_text      == <<"t", "e", "x", "t">>
K_response  == <<"r", "e", "s", "p", "o", "n", "s", "e">>
K_data      == <<"d", "a", "t", "a">>
K_type      == <<"t", "y", "p", "e">>
K_role      == <<"r", "o", "l", "e">>
K_a         == <<"a">>
K_persisted == <<"p", "e", "r", "s", "i", "s", "t", "e", "d">>
K_path      == <<"p", "a", "t", "h">>
KeyOrder    == <<K_persisted, K_path, K_role, K_type, K_content, K_text, K_response,
                 K_data, K_a>>

\* record.key: undefined when the object has no such own property
Field(record, key) == IF key \in DOMAIN record THEN record[key] ELSE Undef

\* JavaScript truthiness
Truthy(x) ==
    CASE x.t = "undef" -> FALSE
      [] x.t = "null"  -> FALSE
      [] x.t = "str"   -> x.v # <<>>
      [] x.t = "num"   -> x.v # 0
      [] x.t = "bool"  -> x.v
      [] OTHER         -> TRUE

\* string | undefined
Undefined == [def |-> FALSE, s |-> <<>>]
Some(s)   == [def |-> TRUE, s |-> s]
\* if (nested): a defined, non-empty string
Found(r)  == r.def /\ r.s # <<>>

-----------------------------------------------------------------------------
(* Answer extractor.                                                       *)

\* textParts.join('\n')
RECURSIVE JoinWith(_, _)
JoinWith(parts, sep) ==
    IF parts = <<>> THEN <<>>
    ELSE IF Len(parts) = 1 THEN parts[1]
    ELSE parts[1] \o sep \o JoinWith(Tail(parts), sep)

\* faulty variant: the parts run together, no newline between them
JoinNoSeparator(parts) == JoinWith(parts, <<>>)

JoinLines(parts) == JoinWith(parts, <<NL>>)

\* the .map(...) callback: the entry's text when the entry is an object with a
\* string text, undefined otherwise
EntryText(entry) ==
    IF Truthy(entry) /\ entry.t = "obj" /\ Field(entry.v, K_text).t = "str"
    THEN Some(Field(entry.v, K_text).v)
    ELSE Undefined

\* the .filter(...) callback
KeepText(value) == value.def /\ Len(value.s) > 0

RECURSIVE SelectTexts(_)
SelectTexts(content) ==
    IF content = <<>> THEN <<>>
    ELSE LET value == EntryText(Head(content))
         IN  (IF KeepText(value) THEN <<value.s>> ELSE <<>>) \o SelectTexts(Tail(content))

\* record.content.map(...).filter(...)
ContentTextParts(content) == SelectTexts(content)

RECURSIVE LastFound(_)
\* faulty variant: the loop keeps the last result found instead of returning the first
LastFound(nested) ==
    IF nested = <<>> THEN Undefined
    ELSE IF Found(nested[Len(nested)]) THEN nested[Len(nested)]
    ELSE LastFound(SubSeq(nested, 1, Len(nested) - 1))

\* the for loop over an array payload: the first nested result that is found
RECURSIVE FirstFound(_)
FirstFound(nested) ==
    IF nested = <<>> THEN Undefined
    ELSE IF Found(Head(nested)) THEN Head(nested)
    ELSE FirstFound(Tail(nested))

\* the two envelope checks of an object payload, `response` first
EnvelopeAnswer(fromResponse, fromData) ==
    IF Found(fromResponse) THEN fromResponse
    ELSE IF Found(fromData) THEN fromData
    ELSE Undefined

RECURSIVE extractAnswerText(_)
extractAnswerText(payload) ==
    IF ~Truthy(payload) THEN Undefined
    ELSE IF payload.t = "str"
    THEN (IF Trim(payload.v) # <<>> THEN Some(payload.v) ELSE Undefined)
    ELSE IF payload.t = "arr"
    THEN FirstFound([i \in 1..Len(payload.v) |-> extractAnswerText(payload.v[i])])
    ELSE IF payload.t = "obj"
    THEN LET record    == payload.v
             content   == Field(record, K_content)
             text      == Field(record, K_text)
             response  == Field(record, K_response)
             data      == Field(record, K_data)
             textParts == IF content.t = "arr" THEN ContentTextParts(content.v) ELSE <<>>
         IN  IF content.t = "arr" /\ Len(textParts) > 0
             THEN Some(JoinLines(textParts))
             ELSE IF text.t = "str" /\ Len(Trim(text.v)) > 0
             THEN Some(text.v)
             ELSE EnvelopeAnswer(
                      IF Truthy(response) THEN extractAnswerText(response) ELSE Undefined,
                      IF Truthy(data) THEN extractAnswerText(data) ELSE Undefined)
    ELSE Undefined

-----------------------------------------------------------------------------
(* JSON.stringify(value, null, 2) and JSON.parse, character by character.  *)
(* Numbers are the integers; an object's keys are written in KeyOrder      *)
(* (JavaScript writes them in insertion order, which a function does not   *)
(* record).                                                                *)

L_null  == <<"n", "u", "l", "l">>
L_true  == <<"t", "r", "u", "e">>
L_false == <<"f", "a", "l", "s", "e">>
QUOTE   == "\""
BSLASH  == "\\"

DigitChars == <<"0", "1", "2", "3", "4", "5", "6", "7", "8", "9">>
IsDigit(c) == \E d \in 1..10 : DigitChars[d] = c
DigitValue(c) == (CHOOSE d \in 1..10 : DigitChars[d] = c) - 1

\* String(n) of a non-negative integer
RECURSIVE Digits(_)
Digits(n) ==
    IF n < 10 THEN <<DigitChars[n + 1]>>
    ELSE Digits(n \div 10) \o <<DigitChars[(n % 10) + 1]>>

NumberText(n) == IF n < 0 THEN <<"-">> \o Digits(0 - n) ELSE Digits(n)

RECURSIVE Spaces(_)
Spaces(n) == IF n = 0 THEN <<>> ELSE <<SP>> \o Spaces(n - 1)

RECURSIVE Escape(_)
Escape(s) ==
    IF s = <<>> THEN <<>>
    ELSE (CASE Head(s) = QUOTE  -> <<BSLASH, QUOTE>>
            [] Head(s) = BSLASH -> <<BSLASH, BSLASH>>
            [] Head(s) = NL     -> <<BSLASH, "n">>
            [] Head(s) = "\t"   -> <<BSLASH, "t">>
            [] OTHER            -> <<Head(s)>>) \o Escape(Tail(s))

Quote(s) == <<QUOTE>> \o Escape(s) \o <<QUOTE>>

\* the keys JSON.stringify writes: those whose value is not undefined
WrittenKeys(record) ==
    SelectSeq(KeyOrder, LAMBDA k : k \in DOMAIN record /\ record[k].t # "undef")

RECURSIVE Stringify(_, _)
Stringify(x, indent) ==
    CASE x.t \in {"null", "undef"} -> L_null
      [] x.t = "bool" -> (IF x.v THEN L_true ELSE L_false)
      [] x.t = "num"  -> NumberText(x.v)
      [] x.t = "str"  -> Quote(x.v)
      [] x.t = "arr"  ->
            IF x.v = <<>> THEN <<"[", "]">>
            ELSE <<"[", NL>>
                 \o JoinWith([i \in 1..Len(x.v) |->
                                 Spaces(indent + 2) \o Stringify(x.v[i], indent + 2)],
                             <<",", NL>>)
                 \o <<NL>> \o Spaces(indent) \o <<"]">>
      [] x.t = "obj"  ->
            LET keys == WrittenKeys(x.v)
            IN  IF keys = <<>> THEN <<"{", "}">>
                ELSE <<"{", NL>>
                     \o JoinWith([i \in 1..Len(keys) |->
                                     Spaces(indent + 2) \o Quote(keys[i]) \o <<":", SP>>
                                     \o Stringify(x.v[keys[i]], indent + 2)],
                                 <<",", NL>>)
                     \o <<NL>> \o Spaces(indent) \o <<"}">>

\* JSON.stringify(value) without indentation, as main() calls it for outputs
RECURSIVE StringifyCompact(_)
StringifyCompact(x) ==
    CASE x.t \in {"null", "undef"} -> L_null
      [] x.t = "bool" -> (IF x.v THEN L_true ELSE L_false)
      [] x.t = "num"  -> NumberText(x.v)
      [] x.t = "str"  -> Quote(x.v)
      [] x.t = "arr"  ->
            <<"[">> \o JoinWith([i \in 1..Len(x.v) |-> StringifyCompact(x.v[i])], <<",">>)
            \o <<"]">>
      [] x.t = "obj"  ->
            LET keys == WrittenKeys(x.v)
            IN  <<"{">>
                \o JoinWith([i \in 1..Len(keys) |->
                                Quote(keys[i]) \o <<":">> \o StringifyCompact(x.v[keys[i]])],
                            <<",">>)
                \o <<"}">>

IsPrefix(p, s) == Len(p) <= Len(s) /\ SubSeq(s, 1, Len(p)) = p
Drop(s, n) == SubSeq(s, n + 1, Len(s))

ParseFail == [ok |-> FALSE, val |-> Undef, rest |-> <<>>]
Parsed(val, rest) == [ok |-> TRUE, val |-> val, rest |-> rest]

\* the characters of a string literal after its opening quote
RECURSIVE ParseChars(_, _)
ParseChars(s, acc) ==
    IF s = <<>> THEN ParseFail
    ELSE IF Head(s) = QUOTE THEN Parsed(acc, Tail(s))
    ELSE IF Head(s) \in {NL, "\t"} THEN ParseFail
    ELSE IF Head(s) = BSLASH
    THEN (IF Len(s) < 2 THEN ParseFail
          ELSE CASE s[2] = QUOTE  -> ParseChars(Drop(s, 2), acc \o <<QUOTE>>)
                 [] s[2] = BSLASH -> ParseChars(Drop(s, 2), acc \o <<BSLASH>>)
                 [] s[2] = "n"    -> ParseChars(Drop(s, 2), acc \o <<NL>>)
                 [] s[2] = "t"    -> ParseChars(Drop(s, 2), acc \o <<"\t">>)
                 [] OTHER         -> ParseFail)
    ELSE ParseChars(Tail(s), acc \o <<Head(s)>>)

RECURSIVE ParseDigits(_, _)
ParseDigits(s, acc) ==
    IF s # <<>> /\ IsDigit(Head(s))
    THEN ParseDigits(Tail(s), 10 * acc + DigitValue(Head(s)))
    ELSE Parsed(acc, s)

RECURSIVE ParseValue(_)
RECURSIVE ParseElements(_, _)
RECURSIVE ParseMembers(_, _)

ParseValue(s0) ==
    LET s == TrimStart(s0)
    IN  IF s = <<>> THEN ParseFail
        ELSE IF IsPrefix(L_null, s) THEN Parsed(Null, Drop(s, 4))
        ELSE IF IsPrefix(L_true, s) THEN Parsed(Bool(TRUE), Drop(s, 4))
        ELSE IF IsPrefix(L_false, s) THEN Parsed(Bool(FALSE), Drop(s, 5))
        ELSE IF Head(s) = QUOTE
        THEN LET r == ParseChars(Tail(s), <<>>)
             IN  IF r.ok THEN Parsed(Str(r.val), r.rest) ELSE ParseFail
        ELSE IF IsDigit(Head(s))
        THEN LET r == ParseDigits(s, 0) IN Parsed(Num(r.val), r.rest)
        ELSE IF Head(s) = "-" /\ Len(s) > 1 /\ IsDigit(s[2])
        THEN LET r == ParseDigits(Tail(s), 0) IN Parsed(Num(0 - r.val), r.rest)
        ELSE IF Head(s) = "["
        THEN (IF TrimStart(Tail(s)) # <<>> /\ Head(TrimStart(Tail(s))) = "]"
              THEN Parsed(Arr(<<>>), Tail(TrimStart(Tail(s))))
              ELSE ParseElements(Tail(s), <<>>))
        ELSE IF Head(s) = "{"
        THEN (IF TrimStart(Tail(s)) # <<>> /\ Head(TrimStart(Tail(s))) = "}"
              THEN Parsed(Obj(<<>>), Tail(TrimStart(Tail(s))))
              ELSE ParseMembers(Tail(s), <<>>))
        ELSE ParseFail

\* value ( "," value )* "]"
ParseElements(s, acc) ==
    LET r == ParseValue(s)
    IN  IF ~r.ok THEN ParseFail
        ELSE LET t == TrimStart(r.rest)
             IN  IF t = <<>> THEN ParseFail
                 ELSE IF Head(t) = "]" THEN Parsed(Arr(acc \o <<r.val>>), Tail(t))
                 ELSE IF Head(t) = "," THEN ParseElements(Tail(t), acc \o <<r.val>>)
                 ELSE ParseFail

\* string ":" value ( "," string ":" value )* "}"
ParseMembers(s, acc) ==
    LET k == TrimStart(s)
    IN  IF k = <<>> \/ Head(k) # QUOTE THEN ParseFail
        ELSE LET key == ParseChars(Tail(k), <<>>)
             IN  IF ~key.ok THEN ParseFail
                 ELSE LET c == TrimStart(key.rest)
                      IN  IF c = <<>> \/ Head(c) # ":" THEN ParseFail
                          ELSE LET r == ParseValue(Tail(c))
                               IN  IF ~r.ok THEN ParseFail
                                   ELSE LET t    == TrimStart(r.rest)
                                            more == [x \in (DOMAIN acc) \cup {key.val} |->
                                                        IF x = key.val THEN r.val ELSE acc[x]]
                                        IN  IF t = <<>> THEN ParseFail
                                            ELSE IF Head(t) = "}" THEN Parsed(Obj(more), Tail(t))
                                            ELSE IF Head(t) = "," THEN ParseMembers(Tail(t), more)
                                            ELSE ParseFail

\* JSON.parse(text): [ok, val]; ok is FALSE where JSON.parse throws a SyntaxError
JSONParse(text) ==
    LET r == ParseValue(text)
    IN  IF r.ok /\ TrimStart(r.rest) = <<>> THEN [ok |-> TRUE, val |-> r.val]
        ELSE [ok |-> FALSE, val |-> Undef]

-----------------------------------------------------------------------------
(* Input normaliser.  An input is what core.getInput returns (a trimmed    *)
(* string, empty when the input is not given); an unset                    *)
(* environment variable and an empty one are both <<>> (both are falsy,    *)
(* and every use below is behind || or a truthiness test).  An error is    *)
(* its message: a sequence of text pieces (a back quote of the source is  *)
(* written as a quote).                                                    *)

InputNames == {"agent-database", "agent-schema", "agent-name", "messages", "message",
               "thread-id", "parent-message-id", "tool-choice", "persist-results",
               "persist-dir"}
EnvNames   == {"AGENT_DATABASE", "SNOWFLAKE_DATABASE", "AGENT_SCHEMA", "SNOWFLAKE_SCHEMA",
               "AGENT_NAME", "AGENT_MESSAGES", "AGENT_MESSAGE", "AGENT_THREAD_ID",
               "AGENT_PARENT_MESSAGE_ID", "AGENT_TOOL_CHOICE", "AGENT_PERSIST_RESULTS",
               "AGENT_PERSIST_DIR", "RUN_SQL_RESULT_DIR", "RUNNER_TEMP",
               "GITHUB_OUTPUT", "GITHUB_ACTIONS"}

Ok(value)   == [ok |-> TRUE, value |-> value, error |-> <<>>]
Throw(msg)  == [ok |-> FALSE, value |-> Undef, error |-> msg]

ErrDatabase  == <<"Provide 'agent-database' or set AGENT_DATABASE/SNOWFLAKE_DATABASE.">>
ErrSchema    == <<"Provide 'agent-schema' or set AGENT_SCHEMA/SNOWFLAKE_SCHEMA.">>
ErrAgentName == <<"Provide 'agent-name' or set AGENT_NAME.">>
ErrNoMessage == <<"Provide 'message' input, AGENT_MESSAGE env, or a messages array.">>
ErrMessagesJSON(detail)   == <<"Invalid messages JSON: ">> \o detail
ErrToolChoiceJSON(detail) == <<"Invalid tool-choice JSON: ">> \o detail
ErrInteger(raw)           == <<"Expected integer value, received: ">> \o raw
\* the message of the SyntaxError JSON.parse throws (its wording is the engine's)
SyntaxErrorText == <<"<SyntaxError>">>

\* (a || b || ... || '').trim(): the first candidate that is not empty, trimmed
RECURSIVE FirstTruthy(_)
FirstTruthy(candidates) ==
    IF candidates = <<>> THEN <<>>
    ELSE OrElse(Head(candidates), FirstTruthy(Tail(candidates)))

ResolveCoordinate(candidates) == Trim(FirstTruthy(candidates))

DatabaseCandidates(i, e) == <<i["agent-database"], e["AGENT_DATABASE"], e["SNOWFLAKE_DATABASE"]>>
SchemaCandidates(i, e)   == <<i["agent-schema"], e["AGENT_SCHEMA"], e["SNOWFLAKE_SCHEMA"]>>
AgentNameCandidates(i, e) == <<i["agent-name"], e["AGENT_NAME"]>>

resolveAgentCoordinates(i, e) ==
    LET database  == ResolveCoordinate(DatabaseCandidates(i, e))
        schema    == ResolveCoordinate(SchemaCandidates(i, e))
        agentName == ResolveCoordinate(AgentNameCandidates(i, e))
    IN  IF database = <<>> THEN Throw(ErrDatabase)
        ELSE IF schema = <<>> THEN Throw(ErrSchema)
        ELSE IF agentName = <<>> THEN Throw(ErrAgentName)
        ELSE Ok([database |-> database, schema |-> schema, agentName |-> agentName])

U_user == <<"u", "s", "e", "r">>

\* the single message the `message` fallback is wrapped into
SingleMessage(single) ==
    Obj([k \in {K_role, K_content} |->
            IF k = K_role THEN Str(U_user)
            ELSE Arr(<<Obj([j \in {K_type, K_text} |->
                              IF j = K_type THEN Str(K_text) ELSE Str(single)])>>)])

\* returns the messages as a sequence
parseMessages(rawMessages, fallbackMessage) ==
    IF rawMessages # <<>> /\ Len(Trim(rawMessages)) > 0
    THEN LET parsed == JSONParse(rawMessages)
         IN  IF ~parsed.ok THEN Throw(ErrMessagesJSON(SyntaxErrorText))
             ELSE IF parsed.val.t # "arr"
             THEN Throw(ErrMessagesJSON(<<"messages must be a JSON array.">>))
             ELSE Ok(parsed.val.v)
    ELSE LET single == Trim(fallbackMessage)
         IN  IF single = <<>> THEN Throw(ErrNoMessage)
             ELSE Ok(<<SingleMessage(single)>>)

\* Number(text) for decimal literals [+-]digits[.digits]; anything else is NaN.
\* The value is num / den.
NaN == [nan |-> TRUE, num |-> 0, den |-> 1]

RECURSIVE AllDigits(_)
AllDigits(s) == s = <<>> \/ (IsDigit(Head(s)) /\ AllDigits(Tail(s)))

RECURSIVE PowerOfTen(_)
PowerOfTen(n) == IF n = 0 THEN 1 ELSE 10 * PowerOfTen(n - 1)

UnsignedNumber(s) ==
    LET dots == {p \in 1..Len(s) : s[p] = "."}
    IN  IF s = <<>> THEN NaN
        ELSE IF dots = {}
        THEN (IF AllDigits(s) THEN [nan |-> FALSE, num |-> ParseDigits(s, 0).val, den |-> 1]
              ELSE NaN)
        ELSE LET p     == CHOOSE q \in dots : TRUE
                 whole == SubSeq(s, 1, p - 1)
                 frac  == SubSeq(s, p + 1, Len(s))
             IN  IF Cardinality(dots) = 1 /\ AllDigits(whole) /\ AllDigits(frac)
                    /\ Len(whole) + Len(frac) > 0
                 THEN [nan |-> FALSE,
                       num |-> ParseDigits(whole \o frac, 0).val,
                       den |-> PowerOfTen(Len(frac))]
                 ELSE NaN

NumberOf(s) ==
    IF s # <<>> /\ Head(s) = "-"
    THEN LET u == UnsignedNumber(Tail(s))
         IN  IF u.nan THEN NaN ELSE [nan |-> FALSE, num |-> 0 - u.num, den |-> u.den]
    ELSE IF s # <<>> /\ Head(s) = "+" THEN UnsignedNumber(Tail(s))
    ELSE UnsignedNumber(s)

\* Math.floor
Floor(x) == x.num \div x.den

\* faulty variant: a value that is not a number is taken as absent
ParseOptionalIntegerLenient(raw) ==
    IF raw = <<>> \/ Trim(raw) = <<>> \/ NumberOf(Trim(raw)).nan THEN Ok(Undef)
    ELSE Ok(Num(Floor(NumberOf(Trim(raw)))))

parseOptionalInteger(raw) ==
    IF raw = <<>> THEN Ok(Undef)
    ELSE LET trimmed == Trim(raw)
         IN  IF trimmed = <<>> THEN Ok(Undef)
             ELSE LET num == NumberOf(trimmed)
                  IN  IF num.nan THEN Throw(ErrInteger(raw))
                      ELSE Ok(Num(Floor(num)))

parseToolChoice(raw) ==
    IF raw = <<>> THEN Ok(Undef)
    ELSE LET trimmed == Trim(raw)
         IN  IF trimmed = <<>> THEN Ok(Undef)
             ELSE IF Head(trimmed) = "{"
             THEN LET parsed == JSONParse(trimmed)
                  IN  IF ~parsed.ok THEN Throw(ErrToolChoiceJSON(SyntaxErrorText))
                      ELSE IF ~Truthy(parsed.val) \/ parsed.val.t \notin {"obj", "arr"}
                      THEN Throw(ErrToolChoiceJSON(<<"tool-choice must be a JSON object.">>))
                      ELSE Ok(parsed.val)
             ELSE Ok(Obj([k \in {K_type} |-> Str(trimmed)]))

UpperCase == <<"A", "B", "C", "D", "E", "F", "G", "H", "I", "J", "K", "L", "M",
               "N", "O", "P", "Q", "R", "S", "T", "U", "V", "W", "X", "Y", "Z">>
LowerCase == <<"a", "b", "c", "d", "e", "f", "g", "h", "i", "j", "k", "l", "m",
               "n", "o", "p", "q", "r", "s", "t", "u", "v", "w", "x", "y", "z">>

ToLowerCase(s) ==
    [p \in 1..Len(s) |->
        IF \E q \in 1..26 : UpperCase[q] = s[p]
        THEN LowerCase[CHOOSE q \in 1..26 : UpperCase[q] = s[p]]
        ELSE s[p]]

parseBoolean(raw) ==
    IF raw = <<>> THEN FALSE
    ELSE LET normalized == ToLowerCase(Trim(raw))
         IN  normalized = L_true \/ normalized = <<"1">> \/ normalized = <<"y", "e", "s">>

\* process.cwd()
Cwd == <<"/", "w">>

\* the persist-dir chain of main()
PersistDir(i, e) ==
    FirstTruthy(<<i["persist-dir"], e["AGENT_PERSIST_DIR"], e["RUN_SQL_RESULT_DIR"],
                  e["RUNNER_TEMP"], Cwd>>)

\* Boolean(process.env.GITHUB_OUTPUT || process.env.GITHUB_ACTIONS)
isGitHubEnv(e) == OrElse(e["GITHUB_OUTPUT"], e["GITHUB_ACTIONS"]) # <<>>

\* the parameters main() builds before the call, or the first error thrown
Normalise(i, e) ==
    LET cs       == resolveAgentCoordinates(i, e)
        messages == parseMessages(OrElse(i["messages"], e["AGENT_MESSAGES"]),
                                  OrElse(i["message"], e["AGENT_MESSAGE"]))
        threadId == parseOptionalInteger(OrElse(i["thread-id"], e["AGENT_THREAD_ID"]))
        parentMessageId ==
            parseOptionalInteger(OrElse(i["parent-message-id"], e["AGENT_PARENT_MESSAGE_ID"]))
        toolChoice == parseToolChoice(OrElse(i["tool-choice"], e["AGENT_TOOL_CHOICE"]))
    IN  IF ~cs.ok THEN Throw(cs.error)
        ELSE IF ~messages.ok THEN Throw(messages.error)
        ELSE IF ~threadId.ok THEN Throw(threadId.error)
        ELSE IF ~parentMessageId.ok THEN Throw(parentMessageId.error)
        ELSE IF ~toolChoice.ok THEN Throw(toolChoice.error)
        ELSE Ok([database |-> cs.value.database,
                 schema |-> cs.value.schema,
                 agentName |-> cs.value.agentName,
                 messages |-> messages.value,
                 threadId |-> threadId.value,
                 parentMessageId |-> parentMessageId.value,
                 toolChoice |-> toolChoice.value])

-----------------------------------------------------------------------------
(* Result persister.  The directory is the one persistResponse resolves;   *)
(* an entry is [name, kind, mtimeMs, data].  The clock is [ms, date, ticks]*)
(* where date holds what the Date getters return; ms counts from an epoch  *)
(* chosen so that the numbers stay small.                                  *)

MAX_PERSIST_FILE_AGE_MS == 86400000

P_prefix == <<"a", "g", "e", "n", "t", "-", "r", "e", "s", "u", "l", "t", "-">>
P_ext    == <<".", "j", "s", "o", "n">>

\* faulty variant: no zero padding
PadNone(n) == Digits(n)

\* String(n).padStart(2, '0')
Pad2(n) == IF Len(Digits(n)) < 2 THEN <<"0">> \o Digits(n) ELSE Digits(n)

Datestamp(date) ==
    Digits(date.year) \o Pad2(date.month + 1) \o Pad2(date.date) \o <<"-">>
    \o Pad2(date.hours) \o Pad2(date.minutes) \o Pad2(date.seconds)

ResultFileName(date, ms) == P_prefix \o Datestamp(date) \o <<"-">> \o Digits(ms) \o P_ext

IsAbsolute(path) == path # <<>> /\ Head(path) = "/"
\* path.resolve(dir), for a dir without '.' or '..' segments or a trailing '/'
PathResolve(path) == IF IsAbsolute(path) THEN path ELSE Cwd \o <<"/">> \o path
PathJoin(path, name) == path \o <<"/">> \o name

\* payload ?? {}
PayloadOrEmpty(payload) == IF payload.t \in {"undef", "null"} THEN Obj(<<>>) ELSE payload

\* faulty variant: a file exactly maxAgeMs old counts as stale
IsStaleOrEqual(now, mtimeMs, maxAgeMs) == now - mtimeMs >= maxAgeMs

\* now - stats.mtimeMs > maxAgeMs
IsStale(now, mtimeMs, maxAgeMs) == now - mtimeMs > maxAgeMs

\* faulty variant: the error of one entry leaves the loop
RethrowEntryError == [caught |-> FALSE]

\* catch { /* ignore errors during cleanup */ }
CatchEntryError == [caught |-> TRUE]

\* faulty variant: outputs are set whatever the environment
EmitAlways(e, outs, name, value) == Append(outs, [name |-> name, value |-> value])

emitOutput(e, outs, name, value) ==
    IF isGitHubEnv(e) THEN Append(outs, [name |-> name, value |-> value]) ELSE outs

NoFailure == [failed |-> FALSE, message |-> <<>>, origin |-> "none"]
Failed(message, origin) == [failed |-> TRUE, message |-> message, origin |-> origin]

NoRequest == [called |-> FALSE, params |-> Undef]
NoResult  == [response |-> Undef, events |-> Arr(<<>>)]
NoSweep   == [now |-> 0, todo |-> {}, errors |-> {}, listed |-> {}, ran |-> FALSE]
NoPersist == [payload |-> Undef, dirPath |-> <<>>, path |-> <<>>, before |-> {},
              existed |-> FALSE, called |-> FALSE]

PersistResults == parseBoolean(OrElse(inp["persist-results"], env["AGENT_PERSIST_RESULTS"]))

EntryNamed(name) == CHOOSE x \in dir.entries : x.name = name

-----------------------------------------------------------------------------
(* main(): one action per step between two points where the outside world  *)
(* (the collaborator, the file system, the clock) decides the outcome.     *)

\* lines 10-35: normalise the inputs and call runCortexAgent, or catch the
\* error thrown and fail
Prepare ==
    /\ pc = "start"
    /\ LET n == Normalise(inp, env)
       IN  IF n.ok
           THEN /\ request' = [called |-> TRUE, params |-> n.value]
                /\ pc' = "awaiting"
                /\ UNCHANGED failure
           ELSE /\ failure' = Failed(n.error, "normalise")
                /\ pc' = "failed"
                /\ UNCHANGED request
    /\ UNCHANGED <<inp, env, result, outputs, answer, coords, dir, sweep, clock, persisted>>

Responses ==
    { Undef, Null, Str(<<"h", "i">>),
      Obj([k \in {K_a} |-> Num(1)]),
      Obj([k \in {K_text} |-> Str(<<SP>>)]),
      Obj([k \in {K_content} |->
              Arr(<<Obj([j \in {K_type, K_text} |->
                          IF j = K_type THEN Str(K_text) ELSE Str(<<"h", "e", "l", "l", "o">>)])>>)]),
      Obj([k \in {K_content} |-> Arr(<<Obj([j \in {K_text} |-> Str(<<SP>>)])>>)]) }

EventLists ==
    { Arr(<<>>),
      Arr(<<Obj([k \in {K_type, K_data} |-> IF k = K_type THEN Str(K_text) ELSE Num(1)])>>) }

\* the awaited call resolves; main() resumes at line 37
AgentResolves ==
    /\ pc = "awaiting"
    /\ \E response \in Responses, events \in EventLists :
           /\ result' = [response |-> response, events |-> events]
           /\ persisted' = IF PersistResults
                           THEN [NoPersist EXCEPT !.payload = response,
                                                  !.dirPath = PersistDir(inp, env),
                                                  !.before = dir.entries,
                                                  !.existed = dir.exists,
                                                  !.called = TRUE]
                           ELSE persisted
    /\ pc' = IF PersistResults THEN "mkdir" ELSE "publish"
    /\ UNCHANGED <<inp, env, request, outputs, failure, answer, coords, dir, sweep, clock>>

\* the awaited call rejects; the catch block fails the run
AgentRejects ==
    /\ pc = "awaiting"
    /\ failure' = Failed(<<"<collaborator error>">>, "runCortexAgent")
    /\ pc' = "failed"
    /\ UNCHANGED <<inp, env, request, result, outputs, answer, coords, dir, sweep, clock,
                   persisted>>

\* time passes while persistResponse runs
Tick ==
    /\ pc \in {"mkdir", "cleanup", "sweeping", "write"}
    /\ clock.ticks < MaxTicks
    /\ clock' = [clock EXCEPT !.ms = @ + 1, !.ticks = @ + 1]
    /\ UNCHANGED <<pc, inp, env, request, result, outputs, failure, answer, coords, dir,
                   sweep, persisted>>

\* line 176: fs.mkdirSync(resolvedDir, {recursive: true})
Mkdir ==
    /\ pc = "mkdir"
    /\ dir' = [dir EXCEPT !.exists = TRUE]
    /\ pc' = "cleanup"
    /\ UNCHANGED <<inp, env, request, result, outputs, failure, answer, coords, sweep,
                   clock, persisted>>

MkdirThrows ==
    /\ pc = "mkdir"
    /\ failure' = Failed(<<"<mkdir error>">>, "mkdirSync")
    /\ pc' = "failed"
    /\ UNCHANGED <<inp, env, request, result, outputs, answer, coords, dir, sweep, clock,
                   persisted>>

\* lines 196-200: existsSync, Date.now(), readdirSync
ListDir ==
    /\ pc = "cleanup"
    /\ IF ~dir.exists
       THEN /\ pc' = "write"
            /\ UNCHANGED sweep
       ELSE /\ sweep' = [now |-> clock.ms,
                         todo |-> {x.name : x \in dir.entries},
                         errors |-> {},
                         listed |-> dir.entries,
                         ran |-> TRUE]
            /\ pc' = IF dir.entries = {} THEN "write" ELSE "sweeping"
    /\ UNCHANGED <<inp, env, request, result, outputs, failure, answer, coords, dir, clock,
                   persisted>>

ReaddirThrows ==
    /\ pc = "cleanup"
    /\ dir.exists
    /\ failure' = Failed(<<"<readdir error>">>, "readdirSync")
    /\ pc' = "failed"
    /\ UNCHANGED <<inp, env, request, result, outputs, answer, coords, dir, sweep, clock,
                   persisted>>

\* where the loop goes after one entry
AfterEntry(todo) == IF todo = {} THEN "write" ELSE "sweeping"

\* lines 201-209, no error: stat the entry, skip what is no file, unlink a stale file
SweepEntry ==
    /\ pc = "sweeping"
    /\ \E name \in sweep.todo :
           LET stats == EntryNamed(name)
           IN  /\ dir' = IF stats.kind = "file"
                            /\ IsStale(sweep.now, stats.mtimeMs, MAX_PERSIST_FILE_AGE_MS)
                         THEN [dir EXCEPT !.entries = @ \ {stats}]
                         ELSE dir
               /\ sweep' = [sweep EXCEPT !.todo = @ \ {name}]
               /\ pc' = AfterEntry(sweep.todo \ {name})
    /\ UNCHANGED <<inp, env, request, result, outputs, failure, answer, coords, clock,
                   persisted>>

\* what an error thrown inside the loop body leads to
EntryErrorOutcome(name) ==
    IF CatchEntryError.caught
    THEN /\ pc' = AfterEntry(sweep.todo \ {name})
         /\ UNCHANGED failure
    ELSE /\ pc' = "failed"
         /\ failure' = Failed(<<"<entry error>">>, "cleanupPersistedFiles")

\* line 203 throws: the entry was removed by someone else since the listing
\* (gone), or cannot be inspected
SweepStatThrows ==
    /\ pc = "sweeping"
    /\ \E name \in sweep.todo, gone \in BOOLEAN :
           /\ dir' = IF gone THEN [dir EXCEPT !.entries = @ \ {EntryNamed(name)}] ELSE dir
           /\ sweep' = [sweep EXCEPT !.todo = @ \ {name}, !.errors = @ \cup {name}]
           /\ EntryErrorOutcome(name)
    /\ UNCHANGED <<inp, env, request, result, outputs, answer, coords, clock, persisted>>

\* line 208 throws: the stale file stays
SweepUnlinkThrows ==
    /\ pc = "sweeping"
    /\ \E name \in sweep.todo :
           /\ EntryNamed(name).kind = "file"
           /\ IsStale(sweep.now, EntryNamed(name).mtimeMs, MAX_PERSIST_FILE_AGE_MS)
           /\ sweep' = [sweep EXCEPT !.todo = @ \ {name}, !.errors = @ \cup {name}]
           /\ EntryErrorOutcome(name)
    /\ UNCHANGED <<inp, env, request, result, outputs, answer, coords, dir, clock, persisted>>

\* the file lines 178-185 write
NewFile ==
    [name    |-> ResultFileName(clock.date, clock.ms),
     kind    |-> "file",
     mtimeMs |-> clock.ms,
     data    |-> Stringify(PayloadOrEmpty(persisted.payload), 0)]

\* lines 178-186: name the file after the time, write it, return its path
WriteFile ==
    /\ pc = "write"
    /\ dir' = [dir EXCEPT !.entries = {x \in @ : x.name # NewFile.name} \cup {NewFile}]
    /\ persisted' = [persisted EXCEPT
                        !.path = PathJoin(PathResolve(persisted.dirPath), NewFile.name)]
    /\ pc' = "returned"
    /\ UNCHANGED <<inp, env, request, result, outputs, failure, answer, coords, sweep, clock>>

WriteThrows ==
    /\ pc = "write"
    /\ failure' = Failed(<<"<write error>">>, "writeFileSync")
    /\ pc' = "failed"
    /\ UNCHANGED <<inp, env, request, result, outputs, answer, coords, dir, sweep, clock,
                   persisted>>

\* lines 46-60: the outputs, in order, and the answer
Publish ==
    /\ pc \in {"publish", "returned"}
    /\ LET persistedPath == persisted.path
           first  == IF PersistResults /\ persistedPath # <<>>
                     THEN emitOutput(env,
                              emitOutput(env, outputs, "result-json",
                                  StringifyCompact(
                                      Obj([k \in {K_persisted, K_path} |->
                                              IF k = K_persisted THEN Bool(TRUE)
                                              ELSE Str(persistedPath)]))),
                              "result-file", persistedPath)
                     ELSE emitOutput(env,
                              emitOutput(env, outputs, "result-json",
                                  StringifyCompact(PayloadOrEmpty(result.response))),
                              "result-file", <<>>)
           second == emitOutput(env, first, "events-json", StringifyCompact(result.events))
           answerText == extractAnswerText(result.response)
       IN  /\ answer' = answerText
           /\ outputs' = IF Found(answerText)
                         THEN emitOutput(env, second, "answer-text", answerText.s)
                         ELSE second
    /\ pc' = "done"
    /\ UNCHANGED <<inp, env, request, result, failure, coords, dir, sweep, clock, persisted>>

-----------------------------------------------------------------------------
(* The inputs the specifications start from.                               *)

\* a set of settings [src, name, value] as the inputs and the environment
InputsOf(settings) ==
    [n \in InputNames |->
        IF \E q \in settings : q.src = "inp" /\ q.name = n
        THEN (CHOOSE q \in settings : q.src = "inp" /\ q.name = n).value
        ELSE <<>>]
EnvOf(settings) ==
    [n \in EnvNames |->
        IF \E q \in settings : q.src = "env" /\ q.name = n
        THEN (CHOOSE q \in settings : q.src = "env" /\ q.name = n).value
        ELSE <<>>]
In(name, value) == [src |-> "inp", name |-> name, value |-> value]
Ev(name, value) == [src |-> "env", name |-> name, value |-> value]

M_empty  == <<"[", "]">>
M_one    == <<"[", "{", "\"", "r", "o", "l", "e", "\"", ":", "\"", "u", "s", "e", "r", "\"", "}", "]">>
M_padded == <<" ", "[", "1", "]", " ">>
M_obj    == <<"{", "\"", "a", "\"", ":", "1", "}">>
M_bad    == <<"[", "o", "o", "p", "s">>
T_auto   == <<"a", "u", "t", "o">>
T_obj    == <<"{", "\"", "t", "y", "p", "e", "\"", ":", "\"", "a", "u", "t", "o", "\"", "}">>
T_bad    == <<"{", "o", "o", "p", "s">>
N_39     == <<"3", ".", "9">>
N_abc    == <<"a", "b", "c">>
B_TRUE   == <<"T", "R", "U", "E">>
B_no     == <<"n", "o">>

CoordSettings ==
    { {In("agent-database", <<"d">>), In("agent-schema", <<"s">>), In("agent-name", <<"n">>),
       Ev("AGENT_DATABASE", <<"x">>)},
      {Ev("SNOWFLAKE_DATABASE", <<SP, "d", SP>>), Ev("AGENT_SCHEMA", <<"s">>),
       Ev("AGENT_NAME", <<"n">>)},
      {Ev("AGENT_DATABASE", <<SP>>), In("agent-schema", <<"s">>), In("agent-name", <<"n">>)},
      {In("agent-database", <<"d">>), In("agent-name", <<"n">>)},
      {In("agent-database", <<"d">>), In("agent-schema", <<"s">>), Ev("AGENT_NAME", <<SP>>)} }

MessageSettings ==
    { {}, {Ev("AGENT_MESSAGE", <<SP>>)}, {In("message", <<"h", "i">>)},
      {In("messages", M_one), In("message", <<"h", "i">>)},
      {Ev("AGENT_MESSAGES", M_padded)},
      {In("messages", M_empty), In("message", <<"h", "i">>)},
      {In("messages", M_obj)}, {In("messages", M_bad), Ev("AGENT_MESSAGE", <<"y", "o">>)},
      {Ev("AGENT_MESSAGES", <<SP>>), Ev("AGENT_MESSAGE", <<SP, "y", "o">>)} }

IntegerSettings ==
    { {}, {In("thread-id", N_39), Ev("AGENT_PARENT_MESSAGE_ID", <<"-", "2">>)},
      {In("thread-id", N_abc)}, {Ev("AGENT_PARENT_MESSAGE_ID", N_abc)} }

ToolChoiceSettings ==
    { {In("tool-choice", T_auto)}, {Ev("AGENT_TOOL_CHOICE", T_obj)},
      {In("tool-choice", T_bad)} }

PersistSettings ==
    { {In("persist-results", B_no)},
      {Ev("AGENT_PERSIST_RESULTS", B_TRUE), In("persist-dir", <<"o", "u", "t">>)} }

RunnerSettings ==
    { {}, {Ev("GITHUB_OUTPUT", <<"/", "o">>)}, {Ev("GITHUB_ACTIONS", L_true)} }

Date1 == [year |-> 2026, month |-> 0, date |-> 5, hours |-> 3, minutes |-> 4, seconds |-> 9]
Date2 == [year |-> 2026, month |-> 10, date |-> 23, hours |-> 14, minutes |-> 55,
          seconds |-> 30]

\* the clock when the run starts
ClockStart == MAX_PERSIST_FILE_AGE_MS + 10

File(name, mtimeMs) == [name |-> name, kind |-> "file", mtimeMs |-> mtimeMs, data |-> <<"x">>]

\* what the directory may hold before the call: files older than the window,
\* exactly as old, younger, dated in the future, and a sub-directory
StaleFile    == File(<<"o", "l", "d">>, ClockStart - MAX_PERSIST_FILE_AGE_MS - 1)
EdgeFile     == File(<<"e", "d", "g", "e">>, ClockStart - MAX_PERSIST_FILE_AGE_MS)
FreshFile    == File(<<"n", "e", "w">>, ClockStart - 1)
FutureFile   == File(<<"f", "u", "t">>, ClockStart + 5)
EarlierResult == File(ResultFileName(Date1, 3), 3)
StaleDir     == [name |-> <<"s", "u", "b">>, kind |-> "dir", mtimeMs |-> 1, data |-> <<>>]
CandidateEntries == {StaleFile, EdgeFile, FreshFile, FutureFile, EarlierResult, StaleDir}

AbsentDir == [exists |-> FALSE, entries |-> {}]
Dirs ==
    {AbsentDir} \cup
    {[exists |-> TRUE, entries |-> es] :
        es \in {x \in SUBSET CandidateEntries : Cardinality(x) <= MaxEntries}}
MainDirs == {AbsentDir, [exists |-> TRUE, entries |-> {StaleFile}]}

\* the calls of persistResponse: a payload, a directory (absolute or relative
\* to the working directory) and the local time
Payloads1 ==
    { Undef, Num(12), Arr(<<>>), Str(<<"q", QUOTE, NL, BSLASH>>),
      Obj([k \in {K_a} |-> Num(1)]) }
Payloads2 ==
    { Null, Bool(FALSE), Obj(<<>>),
      Arr(<<Num(1), Null, Obj(<<>>), Str(<<>>)>>),
      Obj([k \in {K_content, K_data} |->
              IF k = K_data THEN Str(<<"d">>)
              ELSE Arr(<<Obj([j \in {K_text} |-> Str(<<"a">>)])>>)]) }
PersistCalls ==
    {[payload |-> x, dirPath |-> <<"/", "t">>, date |-> Date1] : x \in Payloads1}
    \cup {[payload |-> x, dirPath |-> <<"o", "u", "t">>, date |-> Date2] : x \in Payloads2}

ObjText(x) == Obj([k \in {K_text} |-> x])

\* an object with the four fields the extractor reads; Undef: no such field
MkObj(content, text, response, data) ==
    LET all == [k \in {K_content, K_text, K_response, K_data} |->
                   CASE k = K_content  -> content
                     [] k = K_text     -> text
                     [] k = K_response -> response
                     [] k = K_data     -> data]
    IN  Obj([k \in {j \in DOMAIN all : all[j].t # "undef"} |-> all[k]])

SeqsUpTo(S, n) == UNION {[1..k -> S] : k \in 0..n}

ContentElements ==
    { ObjText(Str(<<>>)), ObjText(Str(<<SP>>)), ObjText(Str(<<"a">>)), ObjText(Str(<<"b">>)),
      ObjText(Num(1)), Obj([k \in {K_type} |-> Str(K_text)]), Str(<<"a">>), Null }

NestedValues ==
    { Undef, Null, Str(<<>>), Str(<<"x">>), Num(0), Bool(TRUE),
      ObjText(Str(<<"n">>)), ObjText(Str(<<SP>>)),
      MkObj(Arr(<<ObjText(Str(<<"c">>))>>), Undef, Undef, Undef),
      MkObj(Undef, Undef, Undef, ObjText(Str(<<"d">>))),
      Arr(<<Str(<<>>), Str(<<"y">>)>>) }

ArrayItems ==
    { Null, Str(<<>>), Str(<<SP>>), Str(<<"p">>), Num(7), ObjText(Str(<<"q">>)),
      ObjText(Str(<<>>)), Arr(<<Str(<<"z">>)>>), Arr(<<>>) }

ExtractInputs ==
    {Undef, Null, Str(<<>>), Str(<<SP, NL>>), Str(<<SP, "s">>), Num(0), Num(7),
     Bool(TRUE), Bool(FALSE)}
    \cup {MkObj(c, t, r, d) :
            c \in {Undef, Str(<<"c">>)} \cup {Arr(xs) : xs \in SeqsUpTo(ContentElements, MaxLen)},
            t \in {Undef, Str(<<>>), Str(<<SP>>), Str(<<"t">>), Num(1)},
            r \in {Undef, Str(<<"r">>)},
            d \in {Undef, Str(<<"d">>)}}
    \cup {MkObj(c, t, r, d) :
            c \in {Undef, Arr(<<>>), Arr(<<ObjText(Str(<<>>))>>)},
            t \in {Undef, Str(<<SP>>), Num(1)},
            r \in NestedValues,
            d \in NestedValues}
    \cup {Arr(xs) : xs \in SeqsUpTo(ArrayItems, MaxLen)}

\* an input is unset or a name (core.getInput trims what it returns); an
\* environment variable is unset, white space only, or a padded name
InputValues(tag) == {<<>>, <<tag>>}
EnvValues(tag)   == {<<>>, <<SP>>, <<SP, tag, SP>>}

-----------------------------------------------------------------------------
(* Specifications.                                                         *)

\* a whole run of main()
Init ==
    /\ pc = "start"
    /\ \E c \in CoordSettings, m \in MessageSettings, n \in IntegerSettings,
          t \in ToolChoiceSettings, p \in PersistSettings, g \in RunnerSettings :
           /\ inp = InputsOf(c \cup m \cup n \cup t \cup p \cup g)
           /\ env = EnvOf(c \cup m \cup n \cup t \cup p \cup g)
    /\ request = NoRequest
    /\ result = NoResult
    /\ outputs = <<>>
    /\ failure = NoFailure
    /\ answer = Undefined
    /\ coords = Throw(<<>>)
    /\ dir \in MainDirs
    /\ sweep = NoSweep
    /\ clock = [ms |-> ClockStart, date |-> Date2, ticks |-> 0]
    /\ persisted = NoPersist

Next ==
    \/ Prepare
    \/ AgentResolves
    \/ AgentRejects
    \/ Mkdir
    \/ MkdirThrows
    \/ ListDir
    \/ ReaddirThrows
    \/ SweepEntry
    \/ SweepStatThrows
    \/ SweepUnlinkThrows
    \/ WriteFile
    \/ WriteThrows
    \/ Publish

Spec == Init /\ [][Next]_vars

\* one call of persistResponse(payload, dir)
InitPersist ==
    /\ pc = "mkdir"
    /\ inp = InputsOf({})
    /\ env = EnvOf({})
    /\ request = NoRequest
    /\ result = NoResult
    /\ outputs = <<>>
    /\ failure = NoFailure
    /\ answer = Undefined
    /\ coords = Throw(<<>>)
    /\ dir \in Dirs
    /\ sweep = NoSweep
    /\ \E call \in PersistCalls :
           /\ clock = [ms |-> ClockStart, date |-> call.date, ticks |-> 0]
           /\ persisted = [NoPersist EXCEPT !.payload = call.payload,
                                            !.dirPath = call.dirPath,
                                            !.before = dir.entries,
                                            !.existed = dir.exists,
                                            !.called = TRUE]

NextPersist ==
    \/ Tick
    \/ Mkdir
    \/ MkdirThrows
    \/ ListDir
    \/ ReaddirThrows
    \/ SweepEntry
    \/ SweepStatThrows
    \/ SweepUnlinkThrows
    \/ WriteFile
    \/ WriteThrows

SpecPersist == InitPersist /\ [][NextPersist]_vars

\* one call of extractAnswerText(payload)
Extract ==
    /\ pc = "extract"
    /\ answer' = extractAnswerText(result.response)
    /\ pc' = "extracted"
    /\ UNCHANGED <<inp, env, request, result, outputs, failure, coords, dir, sweep, clock,
                   persisted>>

InitExtract ==
    /\ pc = "extract"
    /\ inp = InputsOf({})
    /\ env = EnvOf({})
    /\ request = NoRequest
    /\ \E payload \in ExtractInputs : result = [response |-> payload, events |-> Arr(<<>>)]
    /\ outputs = <<>>
    /\ failure = NoFailure
    /\ answer = Undefined
    /\ coords = Throw(<<>>)
    /\ dir = AbsentDir
    /\ sweep = NoSweep
    /\ clock = [ms |-> ClockStart, date |-> Date1, ticks |-> 0]
    /\ persisted = NoPersist

SpecExtract == InitExtract /\ [][Extract]_vars

\* one call of resolveAgentCoordinates()
Resolve ==
    /\ pc = "resolve"
    /\ coords' = resolveAgentCoordinates(inp, env)
    /\ pc' = "resolved"
    /\ UNCHANGED <<inp, env, request, result, outputs, failure, answer, dir, sweep, clock,
                   persisted>>

InitResolve ==
    /\ pc = "resolve"
    /\ \E di \in InputValues("i"), de \in EnvValues("e"), ds \in EnvValues("f"),
          si \in InputValues("j"), se \in EnvValues("g"), ss \in EnvValues("h"),
          ni \in InputValues("k"), ne \in EnvValues("m") :
           LET settings == {In("agent-database", di), Ev("AGENT_DATABASE", de),
                            Ev("SNOWFLAKE_DATABASE", ds), In("agent-schema", si),
                            Ev("AGENT_SCHEMA", se), Ev("SNOWFLAKE_SCHEMA", ss),
                            In("agent-name", ni), Ev("AGENT_NAME", ne)}
           IN  /\ inp = InputsOf(settings)
               /\ env = EnvOf(settings)
    /\ request = NoRequest
    /\ result = NoResult
    /\ outputs = <<>>
    /\ failure = NoFailure
    /\ answer = Undefined
    /\ coords = Throw(<<>>)
    /\ dir = AbsentDir
    /\ sweep = NoSweep
    /\ clock = [ms |-> ClockStart, date |-> Date1, ticks |-> 0]
    /\ persisted = NoPersist

SpecResolve == InitResolve /\ [][Resolve]_vars

-----------------------------------------------------------------------------
(* Properties.                                                             *)

IsBlank(s) == \A p \in 1..Len(s) : IsWhite(s[p])

HasStringText(x) == x.t = "obj" /\ K_text \in DOMAIN x.v /\ x.v[K_text].t = "str"
HasNonEmptyText(x) == HasStringText(x) /\ x.v[K_text].v # <<>>
TextsOf(elements) == [p \in 1..Len(elements) |-> elements[p].v[K_text].v]
NewlineJoin(texts) == JoinWith(texts, <<NL>>)

\* the payload is an object whose content is an array
ContentIsArray(x) == x.t = "obj" /\ K_content \in DOMAIN x.v /\ x.v[K_content].t = "arr"

\* C1 as stated: an object whose content array has an element with a string
\* text yields the newline-join of the texts of ALL elements with a string
\* text, whatever its own text, response and data are.
C1_AllStringTextsJoined ==
    (pc = "extracted" /\ ContentIsArray(result.response)
       /\ \E p \in DOMAIN result.response.v[K_content].v :
              HasStringText(result.response.v[K_content].v[p]))
    => answer = Some(NewlineJoin(TextsOf(SelectSeq(result.response.v[K_content].v,
                                                  HasStringText))))

\* C1 as amended: an object whose content array has an element with a
\* NON-EMPTY string text yields the newline-join, in array order, of the
\* non-empty string texts (elements without a string text, and elements whose
\* text is the empty string, are skipped), whatever its own text, response and
\* data are.
C1_NonEmptyTextsJoined ==
    (pc = "extracted" /\ ContentIsArray(result.response)
       /\ \E p \in DOMAIN result.response.v[K_content].v :
              HasNonEmptyText(result.response.v[K_content].v[p]))
    => answer = Some(NewlineJoin(TextsOf(SelectSeq(result.response.v[K_content].v,
                                                  HasNonEmptyText))))

\* C1's case: two texts around a skipped empty one, beside text, response and data
C1_Witness ==
    /\ pc = "extracted"
    /\ result.response =
           MkObj(Arr(<<ObjText(Str(<<"a">>)), ObjText(Str(<<"b">>))>>),
                 Str(<<"t">>), Str(<<"r">>), Str(<<"d">>))
    /\ answer = Some(<<"a", NL, "b">>)

\* the content of an object yields text
YieldsText(x) ==
    ContentIsArray(x) /\ \E p \in DOMAIN x.v[K_content].v : HasNonEmptyText(x.v[K_content].v[p])

\* C2: extraction is a first-match-wins depth-first search: an array gives the
\* result of its leftmost element whose extraction is defined; an object
\* without text-yielding content gives its non-blank string text, else the
\* extraction of response if defined, else that of data if defined, else
\* undefined; null, undefined, blank strings, numbers and booleans give undefined.
C2_FirstMatchWins ==
    pc = "extracted" =>
        LET x == result.response
            E(y) == extractAnswerText(y)
        IN  /\ x.t = "arr" =>
                   IF \E p \in DOMAIN x.v : E(x.v[p]).def
                   THEN LET first == CHOOSE p \in DOMAIN x.v :
                                         /\ E(x.v[p]).def
                                         /\ \A q \in 1..(p - 1) : ~E(x.v[q]).def
                        IN  answer = E(x.v[first])
                   ELSE answer = Undefined
            /\ (x.t = "obj" /\ ~YieldsText(x)) =>
                   IF K_text \in DOMAIN x.v /\ x.v[K_text].t = "str" /\ ~IsBlank(x.v[K_text].v)
                   THEN answer = Some(x.v[K_text].v)
                   ELSE IF K_response \in DOMAIN x.v /\ E(x.v[K_response]).def
                   THEN answer = E(x.v[K_response])
                   ELSE IF K_data \in DOMAIN x.v /\ E(x.v[K_data]).def
                   THEN answer = E(x.v[K_data])
                   ELSE answer = Undefined
            /\ x.t \in {"null", "undef", "num", "bool"} => answer = Undefined
            /\ x.t = "str" => answer = IF IsBlank(x.v) THEN Undefined ELSE Some(x.v)

\* C2's case: the answer sits two envelopes deep, behind a response that has none
C2_Witness ==
    /\ pc = "extracted"
    /\ result.response =
           MkObj(Undef, Undef, Arr(<<Str(<<>>), Str(<<"y">>)>>),
                 MkObj(Undef, Undef, Undef, ObjText(Str(<<"d">>))))
    /\ answer = Some(<<"y">>)

\* C10 as stated: a string that extractAnswerText returns is never blank.
C10_AnswerNeverBlank ==
    (pc = "extracted" /\ answer.def) => ~IsBlank(answer.s)

\* C3 as stated: the messages runCortexAgent is called with are never empty.
C3_MessagesNonEmpty ==
    request.called => Len(request.params.messages) > 0

\* the first candidate that is not blank, trimmed; <<>> when all are blank
RECURSIVE FirstNonBlank(_)
FirstNonBlank(candidates) ==
    IF candidates = <<>> THEN <<>>
    ELSE IF ~IsBlank(Head(candidates)) THEN Trim(Head(candidates))
    ELSE FirstNonBlank(Tail(candidates))

\* C4 as stated: each coordinate is the first non-blank candidate, trimmed; the
\* resolution fails only when a coordinate has no non-blank candidate.
C4_FirstNonBlankWins ==
    pc = "resolved" =>
        LET database  == FirstNonBlank(DatabaseCandidates(inp, env))
            schema    == FirstNonBlank(SchemaCandidates(inp, env))
            agentName == FirstNonBlank(AgentNameCandidates(inp, env))
        IN  IF database # <<>> /\ schema # <<>> /\ agentName # <<>>
            THEN coords = Ok([database |-> database, schema |-> schema,
                              agentName |-> agentName])
            ELSE ~coords.ok

RawMessages   == OrElse(inp["messages"], env["AGENT_MESSAGES"])
RawMessage    == OrElse(inp["message"], env["AGENT_MESSAGE"])
RawThreadId   == OrElse(inp["thread-id"], env["AGENT_THREAD_ID"])
RawParentId   == OrElse(inp["parent-message-id"], env["AGENT_PARENT_MESSAGE_ID"])
RawToolChoice == OrElse(inp["tool-choice"], env["AGENT_TOOL_CHOICE"])

NonNumeric(raw) == ~IsBlank(raw) /\ NumberOf(Trim(raw)).nan

\* the message of the first configuration error, in the order main() looks;
\* <<>> when the configuration has none
ConfigErrorMessage ==
    IF ResolveCoordinate(DatabaseCandidates(inp, env)) = <<>> THEN ErrDatabase
    ELSE IF ResolveCoordinate(SchemaCandidates(inp, env)) = <<>> THEN ErrSchema
    ELSE IF ResolveCoordinate(AgentNameCandidates(inp, env)) = <<>> THEN ErrAgentName
    ELSE IF IsBlank(RawMessages) /\ IsBlank(RawMessage) THEN ErrNoMessage
    ELSE IF ~IsBlank(RawMessages) /\ ~JSONParse(RawMessages).ok
    THEN <<"Invalid messages JSON: ">> \o SyntaxErrorText
    ELSE IF ~IsBlank(RawMessages) /\ JSONParse(RawMessages).val.t # "arr"
    THEN <<"Invalid messages JSON: ", "messages must be a JSON array.">>
    ELSE IF NonNumeric(RawThreadId)
    THEN <<"Expected integer value, received: ">> \o RawThreadId
    ELSE IF NonNumeric(RawParentId)
    THEN <<"Expected integer value, received: ">> \o RawParentId
    ELSE IF ~IsBlank(RawToolChoice) /\ Head(Trim(RawToolChoice)) = "{"
            /\ (~JSONParse(RawToolChoice).ok \/ JSONParse(RawToolChoice).val.t # "obj")
    THEN <<"Invalid tool-choice JSON: ">> \o SyntaxErrorText
    ELSE <<>>

\* C5: a run with a configuration error ends failed with that error's message;
\* the collaborator is never called, no output is emitted and the directory is
\* never touched.
C5_ConfigErrorFailsCleanly ==
    /\ [](ConfigErrorMessage # <<>> =>
            /\ pc \in {"start", "failed"}
            /\ pc = "failed" => failure = Failed(ConfigErrorMessage, "normalise")
            /\ ~request.called
            /\ outputs = <<>>
            /\ ~persisted.called)
    /\ [][ConfigErrorMessage # <<>> => dir' = dir]_vars

\* C5's case: a non-numeric thread-id, all else valid, persistence requested,
\* inside the workflow runner, with a stale file waiting in the directory
C5_Witness ==
    /\ pc = "failed"
    /\ failure.message = <<"Expected integer value, received: ">> \o N_abc
    /\ PersistResults
    /\ isGitHubEnv(env)
    /\ StaleFile \in dir.entries

OutputNames == [p \in DOMAIN outputs |-> outputs[p].name]

ExpectedNames ==
    IF Found(extractAnswerText(result.response))
    THEN <<"result-json", "result-file", "events-json", "answer-text">>
    ELSE <<"result-json", "result-file", "events-json">>

PersistedMarker == <<"{", QUOTE>> \o K_persisted \o <<QUOTE, ":">> \o L_true
                   \o <<",", QUOTE>> \o K_path \o <<QUOTE, ":">> \o Quote(persisted.path)
                   \o <<"}">>

ReturnedFileExists ==
    \E x \in dir.entries :
        /\ x.kind = "file"
        /\ persisted.path = PathJoin(PathResolve(persisted.dirPath), x.name)

\* what holds of a finished run whatever result-json holds without persistence
OutputsInOrder(rawResponseJSON) ==
    pc = "done" =>
        /\ ~failure.failed
        /\ IF isGitHubEnv(env)
           THEN /\ OutputNames = ExpectedNames
                /\ outputs[3].value = StringifyCompact(result.events)
                /\ Len(outputs) = 4 => outputs[4].value = extractAnswerText(result.response).s
                /\ IF PersistResults
                   THEN /\ outputs[1].value = PersistedMarker
                        /\ outputs[2].value = persisted.path
                        /\ ReturnedFileExists
                   ELSE /\ outputs[1].value = rawResponseJSON
                        /\ outputs[2].value = <<>>
                        /\ ~persisted.called
           ELSE outputs = <<>>

\* C8 as stated: a successful run in the workflow runner emits result-json,
\* result-file, events-json and then, if there is an answer, answer-text; with
\* persistence result-json is the {persisted, path} marker and result-file the
\* path of the file written; without it result-json is the raw response JSON,
\* result-file is empty and the directory is not touched; outside the workflow
\* runner nothing is emitted and the run still succeeds.
C8_RawResponseEmitted ==
    /\ [] OutputsInOrder(StringifyCompact(result.response))
    /\ [][~PersistResults => dir' = dir]_vars

\* C8 as amended: the same, except that without persistence result-json is the
\* raw response JSON, or {} when the response is null or absent.
C8_ResponseOrEmptyObjectEmitted ==
    /\ [] OutputsInOrder(IF result.response.t \in {"null", "undef"}
                         THEN <<"{", "}">>
                         ELSE StringifyCompact(result.response))
    /\ [][~PersistResults => dir' = dir]_vars

\* C8's case: a persisting run in the workflow runner that has an answer
C8_Witness ==
    /\ pc = "done"
    /\ isGitHubEnv(env)
    /\ PersistResults
    /\ Len(outputs) = 4
    /\ outputs[4].value = <<"h", "e", "l", "l", "o">>

\* 24 hours, in ms
DayMs == 24 * 60 * 60 * 1000

\* the age the sweep saw
AgeAtSweep(x) == sweep.now - x.mtimeMs

\* C6: after a persist call that returned with no per-entry error, every file
\* that was more than 24 hours old at sweep time is gone, every file that was
\* 24 hours old or younger is still there, no directory was removed and the
\* returned file exists.
C6_SweepRemovesExactlyStaleFiles ==
    (pc = "returned" /\ sweep.errors = {}) =>
        /\ \A x \in persisted.before :
               /\ (x.kind = "file" /\ AgeAtSweep(x) > DayMs) =>
                      ~\E y \in dir.entries : y.name = x.name
               /\ (x.kind = "file" /\ AgeAtSweep(x) <= DayMs) => x \in dir.entries
               /\ x.kind = "dir" => x \in dir.entries
        /\ ReturnedFileExists

\* C6's case: a stale file, a file exactly 24 hours old and a directory
C6_Witness ==
    /\ pc = "returned"
    /\ sweep.errors = {}
    /\ sweep.now = ClockStart
    /\ persisted.before = {StaleFile, EdgeFile, StaleDir}

AllDigitsAt(name, from, to) == \A p \in from..to : IsDigit(name[p])

\* agent-result-<YYYYMMDD>-<HHMMSS>-<epochMillis>.json
MatchesNamePattern(name) ==
    /\ Len(name) >= 13 + 8 + 1 + 6 + 1 + 1 + 5
    /\ SubSeq(name, 1, 13) = P_prefix
    /\ AllDigitsAt(name, 14, 21)
    /\ name[22] = "-"
    /\ AllDigitsAt(name, 23, 28)
    /\ name[29] = "-"
    /\ AllDigitsAt(name, 30, Len(name) - 5)
    /\ SubSeq(name, Len(name) - 4, Len(name)) = P_ext

\* C7: a persist call on a fresh directory (absent or empty) leaves the
\* directory holding exactly one file, named after the pattern, whose contents
\* parse back to the payload ({} for a null or absent payload), and returns
\* that file's absolute path.
C7_FreshDirectoryRoundTrip ==
    (pc = "returned" /\ persisted.before = {}) =>
        /\ dir.exists
        /\ Cardinality(dir.entries) = 1
        /\ \A x \in dir.entries :
               /\ x.kind = "file"
               /\ MatchesNamePattern(x.name)
               /\ JSONParse(x.data) =
                      [ok |-> TRUE,
                       val |-> IF persisted.payload.t \in {"null", "undef"}
                               THEN Obj(<<>>) ELSE persisted.payload]
               /\ IsAbsolute(persisted.path)
               /\ persisted.path =
                      (IF Head(persisted.dirPath) = "/" THEN persisted.dirPath
                       ELSE Cwd \o <<"/">> \o persisted.dirPath) \o <<"/">> \o x.name

\* C7's case: the directory did not exist and the payload is null
C7_Witness ==
    /\ pc = "returned"
    /\ ~persisted.existed
    /\ persisted.payload = Null
    /\ \E x \in dir.entries : x.data = <<"{", "}">>

\* C9: an error on one entry stays with that entry: the sweep visits every
\* other entry, every stale file without an error is deleted, the result file
\* is written, and persist fails only by mkdir, readdir or the final write.
C9_EntryErrorsAreIsolated ==
    /\ (pc \in {"write", "returned"} /\ sweep.ran) => sweep.todo = {}
    /\ pc = "returned" =>
           /\ \A x \in sweep.listed :
                  (x.kind = "file" /\ AgeAtSweep(x) > DayMs /\ x.name \notin sweep.errors)
                  => x \notin dir.entries
           /\ ReturnedFileExists
    /\ failure.failed => failure.origin \in {"mkdirSync", "readdirSync", "writeFileSync"}

\* C9's case: one stale file could not be handled, another one was deleted
C9_Witness ==
    /\ pc = "returned"
    /\ sweep.errors = {StaleFile.name}
    /\ StaleFile \in dir.entries
    /\ EarlierResult \in sweep.listed
    /\ EarlierResult \notin dir.entries

====
